---- MODULE Spec2Model ----
(***************************************************************************)
(* Model of pymol_server.py: the lifespan that starts and stops the PyMOL  *)
(* engine, the get_cmd helper, the twenty tools and the session-state      *)
(* resource.  The engine is an opaque collaborator: every command it is    *)
(* given either returns a value or raises an Exception with a message.     *)
(*                                                                         *)
(* A Python string is modelled as a sequence of text parts (an f-string is *)
(* the sequence of its literal and interpolated pieces); a file path is    *)
(* the sequence of its components, an absolute path starting with "/".     *)
(***************************************************************************)
EXTENDS Integers, Sequences, FiniteSets, TLC

VARIABLES
    env,          \* what the imports of this process do: "ok", "no_pymol", "no_cmd"
    lpc,          \* position of pymol_lifespan
    ctx,          \* the lifespan context handed to every request
    initLog,      \* engine calls made by the lifespan before its yield, in order
    started,      \* number of successful pymol.finish_launching calls
    quits,        \* number of cmd.quit() calls
    viewport,     \* engine state: the viewport last set by a successful cmd.viewport
    req,          \* the last request handled: operation, arguments, the value the
                  \* engine had to return, the calls made, the result
    nreq          \* number of requests handled

vars == <<env, lpc, ctx, initLog, started, quits, viewport, req, nreq>>

----------------------------------------------------------------------------
(* Bounds and input sets *)

MaxRequests == 2

Msgs == {<<"E1">>, <<"E2">>}          \* str(e) of an exception raised by the engine
Names == {"all", "chain A"}           \* names, selection expressions, colours, texts
Sizes == {640, 1200}                  \* widths and heights
Floats == {1234, 109471}              \* measurements, in thousandths
NameLists == {<<>>, <<"obj1">>, <<"obj1", "sel2">>}   \* results of cmd.get_names
Cwd == <<"/", "work">>                \* os.getcwd()
Paths == {<<>>, <<"a.pdb">>, <<"..", "a.pdb">>, <<".", "d", "a.pdb">>,
          <<"/", "a.pdb">>, <<"/", "d", "..", "a.pdb">>}
PngData == {"png1", "png2"}           \* results of cmd.png_as_string
Views == {"view1"}                    \* results of cmd.get_view
Counts == {0, 7}                      \* results of cmd.select
States == {-1, 1}                     \* the state argument of save_structure

ImportError(e) == IF e = "no_pymol" THEN <<"No module named 'pymol'">>
                  ELSE <<"cannot import name 'cmd' from 'pymol'">>

----------------------------------------------------------------------------
(* os.path *)

isabs(p) == Len(p) > 0 /\ p[1] = "/"

RECURSIVE normparts(_, _)
\* normpath on the components of an absolute path: acc is the normalised
\* prefix (starting with "/"), rest the components still to read
normparts(acc, rest) ==
    IF rest = <<>> THEN acc
    ELSE LET c == Head(rest) IN
         IF c = "." \/ c = "/" THEN normparts(acc, Tail(rest))
         ELSE IF c = ".." THEN
              normparts(IF Len(acc) > 1 THEN SubSeq(acc, 1, Len(acc) - 1) ELSE acc,
                        Tail(rest))
         ELSE normparts(Append(acc, c), Tail(rest))

\* os.path.abspath(p) = normpath(join(getcwd(), p))
abspath(p) == IF isabs(p) THEN normparts(<<"/">>, Tail(p))
              ELSE normparts(<<"/">>, Tail(Cwd) \o p)

----------------------------------------------------------------------------
(* pymol_lifespan *)

\* the handle the lifespan yields, and the one "from pymol import cmd" gives
\* (the same module, reached by another route)
CtxHandle == [module |-> "pymol.cmd", via |-> "lifespan_context"]
ImportHandle == [module |-> "pymol.cmd", via |-> "import"]

NoReq == [op |-> "none", args |-> <<>>, ret |-> <<>>, calls |-> <<>>, caught |-> FALSE,
          exc |-> <<>>, propagated |-> FALSE,
          result |-> [kind |-> "none", text |-> <<>>, data |-> ""]]

Init ==
    /\ env \in {"ok", "no_pymol", "no_cmd"}
    /\ lpc = "import"
    /\ ctx = [kind |-> "unset"]
    /\ initLog = <<>>
    /\ started = 0
    /\ quits = 0
    /\ viewport = <<0, 0>>
    /\ req = NoReq
    /\ nreq = 0

\* the except clause of the lifespan: yield {"error": str(e), "traceback": ...}
YieldError(msg) ==
    /\ ctx' = [kind |-> "error", error |-> msg]
    /\ lpc' = "serving"

\* import pymol; from pymol import cmd
LifespanImport ==
    /\ lpc = "import"
    /\ IF env = "ok"
       THEN lpc' = "launch" /\ ctx' = ctx
       ELSE YieldError(ImportError(env))
    /\ UNCHANGED <<env, initLog, started, quits, viewport, req, nreq>>

\* LifespanLaunch without the "raise" of its except clause: a failed launch
\* is logged and the lifespan goes on to configure the engine
LifespanLaunch_IgnoreFailure ==
    /\ lpc = "launch"
    /\ \E ok \in BOOLEAN :
          /\ initLog' = Append(initLog, [call |-> "finish_launching", ok |-> ok])
          /\ started' = IF ok THEN started + 1 ELSE started
    /\ lpc' = "configure"
    /\ UNCHANGED <<env, ctx, quits, viewport, req, nreq>>

\* pymol.finish_launching(['pymol', '-cq'])
LifespanLaunch ==
    /\ lpc = "launch"
    /\ \/ /\ initLog' = Append(initLog, [call |-> "finish_launching", ok |-> TRUE])
          /\ started' = started + 1
          /\ lpc' = "configure"
          /\ ctx' = ctx
       \/ \E m \in Msgs :
          /\ initLog' = Append(initLog, [call |-> "finish_launching", ok |-> FALSE])
          /\ started' = started
          /\ YieldError(m)
    /\ UNCHANGED <<env, quits, viewport, req, nreq>>

\* cmd.set("retain_order", 1)
LifespanSetRetainOrder ==
    /\ lpc = "configure"
    /\ \/ /\ initLog' = Append(initLog, [call |-> "set retain_order 1", ok |-> TRUE])
          /\ lpc' = "configure2"
          /\ ctx' = ctx
       \/ \E m \in Msgs :
          /\ initLog' = Append(initLog, [call |-> "set retain_order 1", ok |-> FALSE])
          /\ YieldError(m)
    /\ UNCHANGED <<env, started, quits, viewport, req, nreq>>

\* cmd.set("pdb_use_ter_records", 1); yield {"cmd": cmd}
LifespanSetTerRecords ==
    /\ lpc = "configure2"
    /\ \/ /\ initLog' = Append(initLog, [call |-> "set pdb_use_ter_records 1", ok |-> TRUE])
          /\ ctx' = [kind |-> "cmd", cmd |-> CtxHandle]
          /\ lpc' = "serving"
       \/ \E m \in Msgs :
          /\ initLog' = Append(initLog, [call |-> "set pdb_use_ter_records 1", ok |-> FALSE])
          /\ YieldError(m)
    /\ UNCHANGED <<env, started, quits, viewport, req, nreq>>

\* LifespanExit without the cmd.quit() of the finally clause
LifespanExit_NoQuit ==
    /\ lpc = "serving"
    /\ lpc' = "done"
    /\ UNCHANGED <<env, ctx, initLog, started, quits, viewport, req, nreq>>

\* the finally clause: from pymol import cmd; cmd.quit(), any failure logged
LifespanExit ==
    /\ lpc = "serving"
    /\ lpc' = "done"
    /\ quits' = IF env = "ok" THEN quits + 1 ELSE quits
    /\ UNCHANGED <<env, ctx, initLog, started, viewport, req, nreq>>

----------------------------------------------------------------------------
(* Strings *)

\* the unit signs of the measurement messages are spelled out (Angstrom, deg)
\* f"{x:.2f}" of a float given in thousandths (no value is a rounding tie)
Fmt2f(x) ==
    LET h == (x + 5) \div 10
        f == h % 100
    IN ToString(h \div 100) \o "." \o (IF f < 10 THEN "0" ELSE "") \o ToString(f)

RECURSIVE Join(_, _)
\* sep.join(lines), each line a string
Join(sep, lines) ==
    IF lines = <<>> THEN <<>>
    ELSE IF Len(lines) = 1 THEN Head(lines)
    ELSE Head(lines) \o <<sep>> \o Join(sep, Tail(lines))

\* [<<s>> for s in names]: a list of plain strings
Lines(names) == [i \in 1..Len(names) |-> <<names[i]>>]

\* [f"{label}{s}" for s in names]
Labelled(label, names) == [i \in 1..Len(names) |-> <<label, names[i]>>]

----------------------------------------------------------------------------
(* Requests: the engine's side *)

\* what the engine does with the commands of one request: the index of the
\* command that raises (0: none) and the message of the exception
Oracle(n) == [failAt : 0..n, msg : Msgs]

Call(c, a) == [cmd |-> c, args |-> a]

\* Run with a retry: a command that raises is issued a second time
Run_Retry(handle, plan, o) ==
    LET fails == o.failAt \in 1..Len(plan)
        n == IF fails THEN o.failAt ELSE Len(plan)
        made == [i \in 1..n |-> [cmd |-> plan[i].cmd, args |-> plan[i].args,
                                 handle |-> handle, ok |-> i # o.failAt,
                                 exc |-> IF i = o.failAt THEN o.msg ELSE <<>>]]
    IN [calls |-> IF fails THEN Append(made, made[n]) ELSE made,
        raised |-> fails,
        exc |-> IF fails THEN o.msg ELSE <<>>]

\* the statements of a try block that call the engine, run in order until one
\* raises: the calls made, whether the block was left by an exception
Run(handle, plan, o) ==
    LET fails == o.failAt \in 1..Len(plan)
        n == IF fails THEN o.failAt ELSE Len(plan)
    IN [calls |-> [i \in 1..n |-> [cmd |-> plan[i].cmd, args |-> plan[i].args,
                                   handle |-> handle, ok |-> i # o.failAt,
                                   exc |-> IF i = o.failAt THEN o.msg ELSE <<>>]],
        raised |-> fails,
        exc |-> IF fails THEN o.msg ELSE <<>>]

\* get_cmd falling back on the imported module when the context has no handle
get_cmd_ImportFallback(c) ==
    IF c.kind = "cmd" THEN [ok |-> TRUE, cmd |-> c.cmd]
    ELSE [ok |-> TRUE, cmd |-> ImportHandle]

get_cmd(c) ==
    IF c.kind = "error"
    THEN [ok |-> FALSE, exc |-> <<"PyMOL not properly initialized: ">> \o c.error]
    ELSE IF c.kind # "cmd"
    THEN [ok |-> FALSE, exc |-> <<"PyMOL cmd object not found in context">>]
    ELSE [ok |-> TRUE, cmd |-> c.cmd]

\* cmd = get_cmd(ctx) followed by the engine calls of the try block
Try(c, plan, o) ==
    LET g == get_cmd(c) IN
    IF ~g.ok THEN [calls |-> <<>>, raised |-> TRUE, exc |-> g.exc]
    ELSE Run(g.cmd, plan, o)

Str(parts) == [kind |-> "str", text |-> parts, data |-> ""]
Img(bytes) == [kind |-> "image", text |-> <<>>, data |-> bytes]

\* the outcome of a handler: the return of its try block ...
Returned(r, result) ==
    [calls |-> r.calls, caught |-> FALSE, exc |-> <<>>, propagated |-> FALSE,
     result |-> result]
\* ... or of its "except Exception as e" clause
Caught(r, result) ==
    [calls |-> r.calls, caught |-> TRUE, exc |-> r.exc, propagated |-> FALSE,
     result |-> result]

\* a handler whose try block ends in one return and whose except clause
\* returns prefix + str(e)
Simple(r, okText, errPrefix) ==
    IF r.raised THEN Caught(r, Str(errPrefix \o r.exc))
    ELSE Returned(r, Str(okText))

----------------------------------------------------------------------------
(* The tools *)

fetch_structure(c, pdb_id, o) ==
    Simple(Try(c, <<Call("fetch", <<pdb_id>>)>>, o),
           <<"Successfully fetched ", pdb_id>>,
           <<"Error fetching ", pdb_id, ": ">>)

\* load_structure without the os.path.abspath step
load_structure_Verbatim(c, file_path, o) ==
    Simple(Try(c, <<Call("load", <<file_path>>)>>, o),
           <<"Successfully loaded ", file_path>>,
           <<"Error loading ", file_path, ": ">>)

\* file_path is rebound to its absolute form only after get_cmd succeeded
load_structure(c, file_path, o) ==
    LET g == get_cmd(c)
        path == IF ~g.ok THEN file_path
                ELSE IF ~isabs(file_path) THEN abspath(file_path) ELSE file_path
    IN Simple(Try(c, <<Call("load", <<path>>)>>, o),
              <<"Successfully loaded ", path>>,
              <<"Error loading ", path, ": ">>)

show_representation(c, representation, selection, o) ==
    Simple(Try(c, <<Call("show", <<representation, selection>>)>>, o),
           <<"Showing ", representation, " for ", selection>>,
           <<"Error showing ", representation, " for ", selection, ": ">>)

hide_representation(c, representation, selection, o) ==
    Simple(Try(c, <<Call("hide", <<representation, selection>>)>>, o),
           <<"Hiding ", representation, " for ", selection>>,
           <<"Error hiding ", representation, " for ", selection, ": ">>)

color_selection(c, color, selection, o) ==
    Simple(Try(c, <<Call("color", <<color, selection>>)>>, o),
           <<"Colored ", selection, " with ", color>>,
           <<"Error coloring ", selection, " with ", color, ": ">>)

create_selection(c, name, selection, o, result) ==
    Simple(Try(c, <<Call("select", <<name, selection>>)>>, o),
           <<"Created selection '", name, "' for ", selection, " with ",
             ToString(result), " atoms">>,
           <<"Error creating selection '", name, "' for ", selection, ": ">>)

enable_object(c, name, o) ==
    Simple(Try(c, <<Call("enable", <<name>>)>>, o),
           <<"Enabled ", name>>,
           <<"Error enabling ", name, ": ">>)

disable_object(c, name, o) ==
    Simple(Try(c, <<Call("disable", <<name>>)>>, o),
           <<"Disabled ", name>>,
           <<"Error disabling ", name, ": ">>)

zoom_selection(c, selection, o) ==
    Simple(Try(c, <<Call("zoom", <<selection>>)>>, o),
           <<"Zoomed on ", selection>>,
           <<"Error zooming on ", selection, ": ">>)

measure_distance(c, atom1, atom2, name, o, result) ==
    Simple(Try(c, <<Call("distance", <<name, atom1, atom2>>)>>, o),
           <<"Distance between ", atom1, " and ", atom2, " is ", Fmt2f(result), " Angstrom">>,
           <<"Error measuring distance: ">>)

measure_angle(c, atom1, atom2, atom3, name, o, result) ==
    Simple(Try(c, <<Call("angle", <<name, atom1, atom2, atom3>>)>>, o),
           <<"Angle between ", atom1, ", ", atom2, ", and ", atom3, " is ",
             Fmt2f(result), " deg">>,
           <<"Error measuring angle: ">>)

measure_dihedral(c, atom1, atom2, atom3, atom4, name, o, result) ==
    Simple(Try(c, <<Call("dihedral", <<name, atom1, atom2, atom3, atom4>>)>>, o),
           <<"Dihedral angle between ", atom1, ", ", atom2, ", ", atom3, ", and ",
             atom4, " is ", Fmt2f(result), " deg">>,
           <<"Error measuring dihedral angle: ">>)

add_label(c, selection, text, o) ==
    Simple(Try(c, <<Call("label", <<selection, text>>)>>, o),
           <<"Added label '", text, "' to ", selection>>,
           <<"Error adding label: ">>)

draw_image(c, width, height, o) ==
    Simple(Try(c, <<Call("viewport", <<width, height>>), Call("draw", <<>>)>>, o),
           <<"Prepared OpenGL image with dimensions ", ToString(width), "x",
             ToString(height)>>,
           <<"Error preparing image: ">>)

ray_trace(c, width, height, o) ==
    Simple(Try(c, <<Call("viewport", <<width, height>>),
                    Call("ray", <<width, height>>)>>, o),
           <<"Prepared ray-traced image with dimensions ", ToString(width), "x",
             ToString(height)>>,
           <<"Error ray-tracing: ">>)

\* save_png ray-tracing whatever the ray flag says
save_png_AlwaysRay(c, filename, width, height, ray, o) ==
    LET path == IF ~isabs(filename) THEN abspath(filename) ELSE filename
    IN Simple(Try(c, <<Call("viewport", <<width, height>>),
                       Call("ray", <<width, height>>),
                       Call("png", <<path>>)>>, o),
              <<"Saved PNG image to ", path>>,
              <<"Error saving PNG: ">>)

save_png(c, filename, width, height, ray, o) ==
    LET path == IF ~isabs(filename) THEN abspath(filename) ELSE filename
    IN Simple(Try(c, <<Call("viewport", <<width, height>>)>>
                     \o (IF ray THEN <<Call("ray", <<width, height>>)>> ELSE <<>>)
                     \o <<Call("png", <<path>>)>>, o),
              <<"Saved PNG image to ", path>>,
              <<"Error saving PNG: ">>)

\* the white 400x100 PNG the except clause builds; error_msg is not used
Placeholder == "PNG(RGB, 400x100, white)"

\* render_image returning error_msg from its except clause
render_image_ErrorString(c, width, height, ray, o, png_data) ==
    LET r == Try(c, <<Call("viewport", <<width, height>>)>>
                    \o (IF ray THEN <<Call("ray", <<width, height>>)>> ELSE <<>>)
                    \o <<Call("png_as_string", <<>>)>>, o)
    IN IF r.raised THEN Caught(r, Str(<<"Error rendering image: ">> \o r.exc))
       ELSE Returned(r, Img(png_data))

render_image(c, width, height, ray, o, png_data) ==
    LET r == Try(c, <<Call("viewport", <<width, height>>)>>
                    \o (IF ray THEN <<Call("ray", <<width, height>>)>> ELSE <<>>)
                    \o <<Call("png_as_string", <<>>)>>, o)
    IN IF r.raised THEN Caught(r, Img(Placeholder))
       ELSE Returned(r, Img(png_data))

run_command(c, command, o) ==
    Simple(Try(c, <<Call("do", <<command>>)>>, o),
           <<"Executed: ", command>>,
           <<"Error executing '", command, "': ">>)

list_objects(c, o, objects) ==
    Simple(Try(c, <<Call("get_names", <<"objects">>)>>, o),
           IF objects = <<>> THEN <<"No objects currently loaded in PyMOL.">>
           ELSE <<"Loaded objects:\n">> \o Join("\n", Lines(objects)),
           <<"Error listing objects: ">>)

list_selections(c, o, selections) ==
    Simple(Try(c, <<Call("get_names", <<"selections">>)>>, o),
           IF selections = <<>> THEN <<"No selections currently defined in PyMOL.">>
           ELSE <<"Defined selections:\n">> \o Join("\n", Lines(selections)),
           <<"Error listing selections: ">>)

save_structure(c, filename, selection, state, o) ==
    LET g == get_cmd(c)
        path == IF ~g.ok THEN filename
                ELSE IF ~isabs(filename) THEN abspath(filename) ELSE filename
    IN Simple(Try(c, <<Call("save", <<path, selection, state>>)>>, o),
              <<"Saved ", selection, " to ", path>>,
              <<"Error saving to ", path, ": ">>)

\* the resource: no context, the command module is imported directly
get_pymol_state(e, o, objects, selections, view) ==
    IF e # "ok"
    THEN Caught([calls |-> <<>>, exc |-> ImportError(e)],
                Str(<<"Error: PyMOL not properly initialized: ">> \o ImportError(e)))
    ELSE Simple(Run(ImportHandle, <<Call("get_names", <<"objects">>),
                                    Call("get_names", <<"selections">>),
                                    Call("get_view", <<>>)>>, o),
                Join("\n",
                     <<(<<"PyMOL Session State:">>)>>
                     \o (IF objects # <<>>
                         THEN <<(<<"\nLoaded Objects:">>)>> \o Labelled("Object: ", objects)
                         ELSE <<(<<"\nNo objects loaded.">>)>>)
                     \o (IF selections # <<>>
                         THEN <<(<<"\nActive Selections:">>)>>
                              \o Labelled("Selection: ", selections)
                         ELSE <<(<<"\nNo selections defined.">>)>>)
                     \o <<(<<"\n", "View matrix: ", view>>)>>),
                <<"Error retrieving PyMOL state: ">>)

----------------------------------------------------------------------------
(* Requests: one action per tool and one for the resource *)

RECURSIVE ViewportAfter(_, _)
\* the engine's viewport after the calls of a request: each successful
\* cmd.viewport sets it, nothing else touches it
ViewportAfter(v, calls) ==
    IF calls = <<>> THEN v
    ELSE LET k == Head(calls) IN
         ViewportAfter(IF k.cmd = "viewport" /\ k.ok THEN k.args ELSE v, Tail(calls))

\* the server handles a request between the lifespan's yield and its cleanup
Handle(op, args, ret, out) ==
    /\ lpc = "serving"
    /\ nreq < MaxRequests
    /\ req' = [op |-> op, args |-> args, ret |-> ret, calls |-> out.calls, caught |-> out.caught,
               exc |-> out.exc, propagated |-> out.propagated, result |-> out.result]
    /\ viewport' = ViewportAfter(viewport, out.calls)
    /\ nreq' = nreq + 1
    /\ UNCHANGED <<env, lpc, ctx, initLog, started, quits>>

FetchStructure ==
    \E pdb_id \in Names, o \in Oracle(1) :
        Handle("fetch_structure", [pdb_id |-> pdb_id], <<>>, fetch_structure(ctx, pdb_id, o))

LoadStructure ==
    \E file_path \in Paths, o \in Oracle(1) :
        Handle("load_structure", [file_path |-> file_path],
               <<>>, load_structure(ctx, file_path, o))

ShowRepresentation ==
    \E representation \in Names, selection \in Names, o \in Oracle(1) :
        Handle("show_representation",
               [representation |-> representation, selection |-> selection],
               <<>>, show_representation(ctx, representation, selection, o))

HideRepresentation ==
    \E representation \in Names, selection \in Names, o \in Oracle(1) :
        Handle("hide_representation",
               [representation |-> representation, selection |-> selection],
               <<>>, hide_representation(ctx, representation, selection, o))

ColorSelection ==
    \E color \in Names, selection \in Names, o \in Oracle(1) :
        Handle("color_selection", [color |-> color, selection |-> selection],
               <<>>, color_selection(ctx, color, selection, o))

CreateSelection ==
    \E name \in Names, selection \in Names, o \in Oracle(1), result \in Counts :
        Handle("create_selection", [name |-> name, selection |-> selection],
               result, create_selection(ctx, name, selection, o, result))

EnableObject ==
    \E name \in Names, o \in Oracle(1) :
        Handle("enable_object", [name |-> name], <<>>, enable_object(ctx, name, o))

DisableObject ==
    \E name \in Names, o \in Oracle(1) :
        Handle("disable_object", [name |-> name], <<>>, disable_object(ctx, name, o))

ZoomSelection ==
    \E selection \in Names, o \in Oracle(1) :
        Handle("zoom_selection", [selection |-> selection],
               <<>>, zoom_selection(ctx, selection, o))

MeasureDistance ==
    \E atom1 \in Names, atom2 \in Names, name \in Names, o \in Oracle(1),
       result \in Floats :
        Handle("measure_distance", [atom1 |-> atom1, atom2 |-> atom2, name |-> name],
               result, measure_distance(ctx, atom1, atom2, name, o, result))

MeasureAngle ==
    \E atom1 \in Names, atom2 \in Names, atom3 \in Names, name \in Names,
       o \in Oracle(1), result \in Floats :
        Handle("measure_angle",
               [atom1 |-> atom1, atom2 |-> atom2, atom3 |-> atom3, name |-> name],
               result, measure_angle(ctx, atom1, atom2, atom3, name, o, result))

MeasureDihedral ==
    \E atom1 \in Names, atom2 \in Names, atom3 \in Names, atom4 \in Names,
       name \in Names, o \in Oracle(1), result \in Floats :
        Handle("measure_dihedral",
               [atom1 |-> atom1, atom2 |-> atom2, atom3 |-> atom3, atom4 |-> atom4,
                name |-> name],
               result, measure_dihedral(ctx, atom1, atom2, atom3, atom4, name, o, result))

AddLabel ==
    \E selection \in Names, text \in Names, o \in Oracle(1) :
        Handle("add_label", [selection |-> selection, text |-> text],
               <<>>, add_label(ctx, selection, text, o))

DrawImage ==
    \E width \in Sizes, height \in Sizes, o \in Oracle(2) :
        Handle("draw_image", [width |-> width, height |-> height],
               <<>>, draw_image(ctx, width, height, o))

RayTrace ==
    \E width \in Sizes, height \in Sizes, o \in Oracle(2) :
        Handle("ray_trace", [width |-> width, height |-> height],
               <<>>, ray_trace(ctx, width, height, o))

SavePng ==
    \E filename \in Paths, width \in Sizes, height \in Sizes, ray \in BOOLEAN,
       o \in Oracle(3) :
        Handle("save_png",
               [filename |-> filename, width |-> width, height |-> height, ray |-> ray],
               <<>>, save_png(ctx, filename, width, height, ray, o))

RenderImage ==
    \E width \in Sizes, height \in Sizes, ray \in BOOLEAN, o \in Oracle(3),
       png_data \in PngData :
        Handle("render_image", [width |-> width, height |-> height, ray |-> ray],
               png_data, render_image(ctx, width, height, ray, o, png_data))

RunCommand ==
    \E command \in Names, o \in Oracle(1) :
        Handle("run_command", [command |-> command], <<>>, run_command(ctx, command, o))

ListObjects ==
    \E o \in Oracle(1), objects \in NameLists :
        Handle("list_objects", <<>>, objects, list_objects(ctx, o, objects))

ListSelections ==
    \E o \in Oracle(1), selections \in NameLists :
        Handle("list_selections", <<>>, selections, list_selections(ctx, o, selections))

SaveStructure ==
    \E filename \in Paths, selection \in Names, state \in States, o \in Oracle(1) :
        Handle("save_structure",
               [filename |-> filename, selection |-> selection, state |-> state],
               <<>>, save_structure(ctx, filename, selection, state, o))

GetPymolState ==
    \E o \in Oracle(3), objects \in NameLists, selections \in NameLists, view \in Views :
        Handle("get_pymol_state", <<>>,
               <<objects, selections, view>>, get_pymol_state(env, o, objects, selections, view))

Next ==
    \/ LifespanImport
    \/ LifespanLaunch
    \/ LifespanSetRetainOrder
    \/ LifespanSetTerRecords
    \/ LifespanExit
    \/ FetchStructure
    \/ LoadStructure
    \/ ShowRepresentation
    \/ HideRepresentation
    \/ ColorSelection
    \/ CreateSelection
    \/ EnableObject
    \/ DisableObject
    \/ ZoomSelection
    \/ MeasureDistance
    \/ MeasureAngle
    \/ MeasureDihedral
    \/ AddLabel
    \/ DrawImage
    \/ RayTrace
    \/ SavePng
    \/ RenderImage
    \/ RunCommand
    \/ ListObjects
    \/ ListSelections
    \/ SaveStructure
    \/ GetPymolState

Spec == Init /\ [][Next]_vars

----------------------------------------------------------------------------
(* Vocabulary of the properties *)

Handled == req.op # "none"
IsTool == Handled /\ req.op # "get_pymol_state"
NCalls == Len(req.calls)
LastCall == req.calls[NCalls]
\* the request ended because an engine command it called raised
EngineFailed == NCalls > 0 /\ ~LastCall.ok

StartsWith(s, p) == Len(s) >= Len(p) /\ SubSeq(s, 1, Len(p)) = p
EndsWith(s, p) == Len(s) >= Len(p) /\ SubSeq(s, Len(s) - Len(p) + 1, Len(s)) = p
Contains(s, p) ==
    \E k \in 0..(Len(s) - Len(p)) : SubSeq(s, k + 1, k + Len(p)) = p

\* the literal text every error string of an operation begins with
ErrorPrefix(op) ==
    CASE op = "fetch_structure" -> "Error fetching "
      [] op = "load_structure" -> "Error loading "
      [] op = "show_representation" -> "Error showing "
      [] op = "hide_representation" -> "Error hiding "
      [] op = "color_selection" -> "Error coloring "
      [] op = "create_selection" -> "Error creating selection '"
      [] op = "enable_object" -> "Error enabling "
      [] op = "disable_object" -> "Error disabling "
      [] op = "zoom_selection" -> "Error zooming on "
      [] op = "measure_distance" -> "Error measuring distance: "
      [] op = "measure_angle" -> "Error measuring angle: "
      [] op = "measure_dihedral" -> "Error measuring dihedral angle: "
      [] op = "add_label" -> "Error adding label: "
      [] op = "draw_image" -> "Error preparing image: "
      [] op = "ray_trace" -> "Error ray-tracing: "
      [] op = "save_png" -> "Error saving PNG: "
      [] op = "render_image" -> "Error rendering image: "
      [] op = "run_command" -> "Error executing '"
      [] op = "list_objects" -> "Error listing objects: "
      [] op = "list_selections" -> "Error listing selections: "
      [] op = "save_structure" -> "Error saving to "
      [] op = "get_pymol_state" -> "Error retrieving PyMOL state: "

\* the request's parameters in the order the engine command takes them, as
\* the request gave them
Verbatim(op, a) ==
    CASE op = "fetch_structure" -> <<a.pdb_id>>
      [] op = "load_structure" -> <<a.file_path>>
      [] op \in {"show_representation", "hide_representation"} ->
            <<a.representation, a.selection>>
      [] op = "color_selection" -> <<a.color, a.selection>>
      [] op = "create_selection" -> <<a.name, a.selection>>
      [] op \in {"enable_object", "disable_object"} -> <<a.name>>
      [] op = "zoom_selection" -> <<a.selection>>
      [] op = "measure_distance" -> <<a.name, a.atom1, a.atom2>>
      [] op = "measure_angle" -> <<a.name, a.atom1, a.atom2, a.atom3>>
      [] op = "measure_dihedral" -> <<a.name, a.atom1, a.atom2, a.atom3, a.atom4>>
      [] op = "add_label" -> <<a.selection, a.text>>
      [] op \in {"draw_image", "ray_trace"} -> <<a.width, a.height>>
      [] op = "save_png" -> <<a.filename>>
      [] op = "render_image" -> <<>>
      [] op = "run_command" -> <<a.command>>
      [] op \in {"list_objects", "list_selections", "get_pymol_state"} -> <<>>
      [] op = "save_structure" -> <<a.filename, a.selection, a.state>>

\* a path with neither "." nor ".." in it, starting at the root
Normal(p) == isabs(p) /\ \A i \in 2..Len(p) : p[i] \notin {".", "..", "/"}
\* what a handler makes of a path parameter before passing it on
Absolute(p) == IF isabs(p) THEN p ELSE abspath(p)

\* the engine commands of a request whose commands all succeed, as the handlers
\* issue them: a path parameter in its absolute form, everything else as given
Forwarded(op, a) ==
    CASE op = "fetch_structure" -> <<Call("fetch", <<a.pdb_id>>)>>
      [] op = "load_structure" -> <<Call("load", <<Absolute(a.file_path)>>)>>
      [] op = "show_representation" -> <<Call("show", <<a.representation, a.selection>>)>>
      [] op = "hide_representation" -> <<Call("hide", <<a.representation, a.selection>>)>>
      [] op = "color_selection" -> <<Call("color", <<a.color, a.selection>>)>>
      [] op = "create_selection" -> <<Call("select", <<a.name, a.selection>>)>>
      [] op = "enable_object" -> <<Call("enable", <<a.name>>)>>
      [] op = "disable_object" -> <<Call("disable", <<a.name>>)>>
      [] op = "zoom_selection" -> <<Call("zoom", <<a.selection>>)>>
      [] op = "measure_distance" -> <<Call("distance", <<a.name, a.atom1, a.atom2>>)>>
      [] op = "measure_angle" -> <<Call("angle", <<a.name, a.atom1, a.atom2, a.atom3>>)>>
      [] op = "measure_dihedral" ->
            <<Call("dihedral", <<a.name, a.atom1, a.atom2, a.atom3, a.atom4>>)>>
      [] op = "add_label" -> <<Call("label", <<a.selection, a.text>>)>>
      [] op = "draw_image" -> <<Call("viewport", <<a.width, a.height>>), Call("draw", <<>>)>>
      [] op = "ray_trace" ->
            <<Call("viewport", <<a.width, a.height>>), Call("ray", <<a.width, a.height>>)>>
      [] op = "save_png" ->
            IF a.ray
            THEN <<Call("viewport", <<a.width, a.height>>),
                   Call("ray", <<a.width, a.height>>),
                   Call("png", <<Absolute(a.filename)>>)>>
            ELSE <<Call("viewport", <<a.width, a.height>>),
                   Call("png", <<Absolute(a.filename)>>)>>
      [] op = "render_image" ->
            IF a.ray
            THEN <<Call("viewport", <<a.width, a.height>>),
                   Call("ray", <<a.width, a.height>>), Call("png_as_string", <<>>)>>
            ELSE <<Call("viewport", <<a.width, a.height>>), Call("png_as_string", <<>>)>>
      [] op = "run_command" -> <<Call("do", <<a.command>>)>>
      [] op = "list_objects" -> <<Call("get_names", <<"objects">>)>>
      [] op = "list_selections" -> <<Call("get_names", <<"selections">>)>>
      [] op = "save_structure" ->
            <<Call("save", <<Absolute(a.filename), a.selection, a.state>>)>>
      [] op = "get_pymol_state" ->
            <<Call("get_names", <<"objects">>), Call("get_names", <<"selections">>),
              Call("get_view", <<>>)>>

PathOps == {"load_structure", "save_png", "save_structure"}
PathParam == IF req.op = "load_structure" THEN req.args.file_path ELSE req.args.filename

----------------------------------------------------------------------------
(* C1 *)

\* C1: whenever an engine command called by an operation raises, the operation
\* does not propagate the failure; it returns a string that starts with the
\* operation's error prefix and ends with the failure's message.
C1_FailureIsPrefixedString ==
    (Handled /\ EngineFailed) =>
        /\ ~req.propagated
        /\ req.result.kind = "str"
        /\ StartsWith(req.result.text, <<ErrorPrefix(req.op)>>)
        /\ EndsWith(req.result.text, LastCall.exc)

----------------------------------------------------------------------------
(* C2 *)

\* C2: every request that reaches the engine invokes exactly one engine
\* command and passes it the request's parameters unchanged.
C2_OneCommandVerbatim ==
    (Handled /\ NCalls > 0) =>
        /\ NCalls = 1
        /\ req.calls[1].args = Verbatim(req.op, req.args)

\* C2 as amended: the commands a request issues are, in order, those of
\* Forwarded (all of them when nothing fails, a prefix ending in the failed
\* command otherwise): every parameter as given, except that a path handed to
\* load / png / save is absolute and normalised, and is the given path itself
\* when that was already absolute.
C2_ForwardedAsAmended ==
    Handled =>
        LET exp == Forwarded(req.op, req.args) IN
        /\ NCalls <= Len(exp)
        /\ \A i \in 1..NCalls :
              /\ req.calls[i].cmd = exp[i].cmd
              /\ req.calls[i].args = exp[i].args
        /\ ~req.caught => NCalls = Len(exp)
        /\ (req.caught /\ NCalls > 0) => ~LastCall.ok
        /\ \A i \in 1..NCalls :
              req.calls[i].cmd \in {"load", "png", "save"} =>
                 LET p == req.calls[i].args[1] IN
                 /\ isabs(p)
                 /\ isabs(PathParam) => p = PathParam
                 /\ ~isabs(PathParam) =>
                       /\ Normal(p)
                       /\ StartsWith(p, Cwd) \/ \E k \in 1..Len(PathParam) : PathParam[k] = ".."

\* a relative path was given and the engine received its absolute form
C2_Witness ==
    /\ req.op = "load_structure"
    /\ req.args.file_path = <<"..", "a.pdb">>
    /\ NCalls = 1
    /\ LastCall.ok
    /\ LastCall.args = <<(<<"/", "a.pdb">>)>>

----------------------------------------------------------------------------
(* C3 *)

----------------------------------------------------------------------------
(* C4 *)

\* C4: every engine call of every request goes through the handle the
\* lifespan put into the context.
C4_OnlyThroughContext ==
    \A i \in 1..NCalls : req.calls[i].handle.via = "lifespan_context"

\* C4 as amended: every engine call of a tool goes through the handle that
\* the lifespan yielded (so a tool calls the engine only when the context
\* holds that handle); the session-state resource has no context and reaches
\* the engine through its own import of pymol.cmd.
C4_ToolsThroughContextAsAmended ==
    /\ IsTool =>
          \A i \in 1..NCalls :
             /\ ctx.kind = "cmd"
             /\ req.calls[i].handle = ctx.cmd
             /\ req.calls[i].handle.via = "lifespan_context"
    /\ req.op = "get_pymol_state" =>
          \A i \in 1..NCalls : req.calls[i].handle.via = "import"

\* a tool called the engine through the context's handle
C4_Witness ==
    /\ req.op = "fetch_structure"
    /\ NCalls = 1
    /\ LastCall.handle = CtxHandle

----------------------------------------------------------------------------
(* C5 *)

\* C5: within one request each engine command is invoked at most once, no
\* command is invoked after one has failed, and a viewport that was set
\* stays set.
C5_EachCommandOnce ==
    /\ \A i, j \in 1..NCalls : i < j => req.calls[i].cmd # req.calls[j].cmd
    /\ \A i \in 1..NCalls : ~req.calls[i].ok => i = NCalls
    /\ \A i \in 1..NCalls :
          (req.calls[i].cmd = "viewport" /\ req.calls[i].ok) =>
              viewport = req.calls[i].args

\* C5 as amended: within one request no engine call is repeated (the same
\* command with the same arguments); the only command invoked more than once
\* is get_names, which get_pymol_state invokes for "objects" and then for
\* "selections"; no command is invoked after one has failed; a viewport that
\* was set stays set when a later command of the request fails.
C5_NoRetryAsAmended ==
    /\ \A i, j \in 1..NCalls :
          (i < j /\ req.calls[i].cmd = req.calls[j].cmd) =>
              /\ req.calls[i].args # req.calls[j].args
              /\ req.op = "get_pymol_state"
              /\ req.calls[i].cmd = "get_names"
    /\ \A i \in 1..NCalls : ~req.calls[i].ok => i = NCalls
    /\ \A i \in 1..NCalls :
          (req.calls[i].cmd = "viewport" /\ req.calls[i].ok) =>
              viewport = req.calls[i].args

\* the viewport was set, then ray failed: no further call, viewport kept
C5_Witness ==
    /\ req.op = "save_png"
    /\ NCalls = 2
    /\ req.calls[1].cmd = "viewport" /\ req.calls[1].ok
    /\ req.calls[2].cmd = "ray" /\ ~req.calls[2].ok
    /\ viewport = <<req.args.width, req.args.height>>
    /\ req.caught

----------------------------------------------------------------------------
(* C6 *)

\* C6: render_image never raises and never returns a string: it returns the
\* engine's PNG data when every command succeeded and the placeholder image
\* when get_cmd or a command failed.
C6_RenderAlwaysImage ==
    req.op = "render_image" =>
        /\ ~req.propagated
        /\ req.result.kind = "image"
        /\ req.result.text = <<>>
        /\ IF ctx.kind = "cmd" /\ \A i \in 1..NCalls : req.calls[i].ok
           THEN /\ req.result.data = req.ret
                /\ NCalls > 0 /\ LastCall.cmd = "png_as_string"
           ELSE req.result.data = Placeholder

\* ray failed inside render_image and the placeholder came back
C6_Witness ==
    /\ req.op = "render_image"
    /\ NCalls = 2
    /\ ~LastCall.ok
    /\ req.result = Img(Placeholder)

----------------------------------------------------------------------------
(* C7 *)

\* C7: after a failed initialization the context holds the error, and every
\* tool request returns, without raising, its operation's error string
\* containing "PyMOL not properly initialized: <error message>".
C7_InitFailureReported ==
    (IsTool /\ ctx.kind = "error") =>
        /\ ~req.propagated
        /\ req.result.kind = "str"
        /\ StartsWith(req.result.text, <<ErrorPrefix(req.op)>>)
        /\ Contains(req.result.text, <<"PyMOL not properly initialized: ">> \o ctx.error)

----------------------------------------------------------------------------
(* C8 *)

ImageOps == {"save_png", "render_image"}
Capture == IF req.op = "save_png" THEN "png" ELSE "png_as_string"

\* C8: save_png and render_image issue viewport(width, height) first, then
\* ray(width, height) exactly when the ray flag is set, then the capture,
\* last; draw_image and ray_trace issue viewport(width, height) before draw
\* and ray.  A failed command ends the sequence.
C8_RenderOrder ==
    /\ req.op \in ImageOps =>
          /\ NCalls > 0 =>
                /\ req.calls[1].cmd = "viewport"
                /\ req.calls[1].args = <<req.args.width, req.args.height>>
          /\ \A i \in 1..NCalls :
                /\ req.calls[i].cmd \in {"viewport", "ray", Capture}
                /\ req.calls[i].cmd = "viewport" => i = 1
                /\ req.calls[i].cmd = "ray" =>
                      /\ req.args.ray
                      /\ i = 2
                      /\ req.calls[i].args = <<req.args.width, req.args.height>>
                /\ req.calls[i].cmd = Capture =>
                      /\ i = NCalls
                      /\ i = (IF req.args.ray THEN 3 ELSE 2)
                      /\ \A j \in 1..(i - 1) : req.calls[j].ok
          /\ (NCalls >= 2 /\ req.args.ray) => req.calls[2].cmd = "ray"
          /\ ~req.caught => (NCalls > 0 /\ LastCall.cmd = Capture)
    /\ req.op \in {"draw_image", "ray_trace"} =>
          /\ NCalls <= 2
          /\ NCalls > 0 =>
                /\ req.calls[1].cmd = "viewport"
                /\ req.calls[1].args = <<req.args.width, req.args.height>>
          /\ NCalls = 2 =>
                /\ req.calls[1].ok
                /\ req.calls[2].cmd = (IF req.op = "draw_image" THEN "draw" ELSE "ray")
          /\ ~req.caught => NCalls = 2

\* save_png with the ray flag set ran viewport, ray and png, in that order
C8_Witness ==
    /\ req.op = "save_png"
    /\ req.args.ray
    /\ NCalls = 3
    /\ req.calls[1].cmd = "viewport"
    /\ req.calls[2].cmd = "ray"
    /\ req.calls[3].cmd = "png"
    /\ ~req.caught

----------------------------------------------------------------------------
(* C9 *)

\* C9: the context holds the command handle only after finish_launching
\* succeeded and retain_order, then pdb_use_ter_records, were set; after a
\* failed launch no setting is applied and no handle is handed out.
C9_HandleAfterConfiguration ==
    /\ ctx.kind = "cmd" =>
          initLog = <<[call |-> "finish_launching", ok |-> TRUE],
                      [call |-> "set retain_order 1", ok |-> TRUE],
                      [call |-> "set pdb_use_ter_records 1", ok |-> TRUE]>>
    /\ \A i \in 1..Len(initLog) :
          initLog[i].call # "finish_launching" =>
             /\ i > 1
             /\ initLog[1] = [call |-> "finish_launching", ok |-> TRUE]
    /\ (initLog # <<>> /\ ~initLog[1].ok) =>
          /\ Len(initLog) = 1
          /\ ctx.kind = "error"

\* the server is serving with the handle in its context
C9_Witness ==
    /\ lpc = "serving"
    /\ ctx.kind = "cmd"
    /\ Len(initLog) = 3
    /\ nreq > 0

====
